---------------------------- MODULE Spec2Model ----------------------------
(***************************************************************************)
(* A model of the news-feed record pipeline of the coursework repository: *)
(* the text normaliser (Task 3, reused in Tasks 6, 8, 9, 10), the record   *)
(* classes News / PrivateAd / Event, the flat-file sink, the word-count    *)
(* and letter-count artifacts (Tasks 8, 9), the delimited-line, JSON and   *)
(* XML adapters (Tasks 6, 8, 9) and the SQLite sink with its XML loader    *)
(* (Task 10).                                                              *)
(*                                                                         *)
(* Python strings are finite sequences of one-character strings.  Python's *)
(* None is the one-element sequence None below, which no text equals.      *)
(***************************************************************************)
EXTENDS Integers, Sequences, FiniteSets, TLC

VARIABLES
    fs,           \* source files: path -> Missing | sequence of items
    feed,         \* news_feed.txt: the sequence of lines appended so far
    wordCount,    \* word-count.csv: Absent | the rows after the header
    letterCount,  \* letter-count.csv: Absent | the single row after the header
    db,           \* news_feed.db: table name -> [rows, seq]
    now,          \* the wall clock, in ticks
    call,         \* the handler that ran last, and the path it was given
    raised,       \* the exception that escaped the last handler, or NoExc
    events,       \* what the last handler did, in order: sink writes, analytics
    normIn,       \* the argument of the last normalize_text call
    normOut,      \* its outcome
    countIn,      \* the texts last given to the two analytics updates, and
                  \* whether none, one or more updates have run
    added,        \* the record object the last add_record call constructed
    sortCall,     \* the running bubble_sort call: its list and loop indices
    mergeCall,    \* the argument of the last merge_dicts call and its result
    pass          \* the running load_from_xml call of Task 9, statement by
                  \* statement: the elements left and the object in hand

vars == <<fs, feed, wordCount, letterCount, db, now, call, raised, events,
          normIn, normOut, countIn, added, sortCall, mergeCall, pass>>

----------------------------------------------------------------------------
(* Characters and the str methods the code uses *)

None == <<"<None>">>
NoExc == "none"

LowerCase ==
    <<"a", "b", "c", "d", "e", "f", "g", "h", "i", "j", "k", "l", "m",
      "n", "o", "p", "q", "r", "s", "t", "u", "v", "w", "x", "y", "z">>
UpperCase ==
    <<"A", "B", "C", "D", "E", "F", "G", "H", "I", "J", "K", "L", "M",
      "N", "O", "P", "Q", "R", "S", "T", "U", "V", "W", "X", "Y", "Z">>
Range(f) == {f[i] : i \in DOMAIN f}
LowerLetters == Range(LowerCase)
UpperLetters == Range(UpperCase)
Digits == {"0", "1", "2", "3", "4", "5", "6", "7", "8", "9"}
WhiteSpace == {" ", "\t", "\n"}
SentenceEnd == {".", "!", "?"}

\* str.isspace, str.isalpha, str.isupper of one (ASCII) character
isspace(c) == c \in WhiteSpace
isupper(c) == c \in UpperLetters
isalpha(c) == c \in LowerLetters \/ c \in UpperLetters

\* \w of the re module: letters, digits and the underscore
IsWordChar(c) == isalpha(c) \/ c \in Digits \/ c = "_"

LowerOf == [c \in UpperLetters |->
               LowerCase[CHOOSE i \in DOMAIN UpperCase : UpperCase[i] = c]]
UpperOf == [c \in LowerLetters |->
               UpperCase[CHOOSE i \in DOMAIN LowerCase : LowerCase[i] = c]]

ToLower(c) == IF c \in UpperLetters THEN LowerOf[c] ELSE c
ToUpper(c) == IF c \in LowerLetters THEN UpperOf[c] ELSE c

\* str.lower
lower(s) == [i \in 1..Len(s) |-> ToLower(s[i])]

\* str.capitalize: the first character upper-cased, the others lower-cased
capitalize(s) ==
    [i \in 1..Len(s) |-> IF i = 1 THEN ToUpper(s[i]) ELSE ToLower(s[i])]

\* str.strip(): leading and trailing whitespace removed
RECURSIVE lstrip(_)
lstrip(s) == IF s # <<>> /\ isspace(Head(s)) THEN lstrip(Tail(s)) ELSE s

RECURSIVE rstripSet(_, _)
rstripSet(s, chars) ==
    IF s # <<>> /\ s[Len(s)] \in chars
    THEN rstripSet(SubSeq(s, 1, Len(s) - 1), chars)
    ELSE s

strip(s) == rstripSet(lstrip(s), WhiteSpace)

\* str.split(): the maximal runs of non-whitespace characters
RECURSIVE splitFrom(_, _, _)
splitFrom(s, i, cur) ==
    IF i > Len(s) THEN (IF cur = <<>> THEN <<>> ELSE <<cur>>)
    ELSE IF isspace(s[i])
         THEN (IF cur = <<>> THEN <<>> ELSE <<cur>>) \o splitFrom(s, i + 1, <<>>)
         ELSE splitFrom(s, i + 1, Append(cur, s[i]))

split(s) == splitFrom(s, 1, <<>>)

\* str.split(sep) for a one-character separator: every piece, empty ones too
RECURSIVE splitOnFrom(_, _, _, _)
splitOnFrom(s, sep, i, cur) ==
    IF i > Len(s) THEN <<cur>>
    ELSE IF s[i] = sep
         THEN <<cur>> \o splitOnFrom(s, sep, i + 1, <<>>)
         ELSE splitOnFrom(s, sep, i + 1, Append(cur, s[i]))

splitOn(s, sep) == splitOnFrom(s, sep, 1, <<>>)

\* " ".join(parts)
RECURSIVE join(_)
join(parts) ==
    IF parts = <<>> THEN <<>>
    ELSE IF Len(parts) = 1 THEN parts[1]
    ELSE parts[1] \o <<" ">> \o join(Tail(parts))

\* The first index >= i of s that holds no whitespace (Len(s) + 1 if none)
RECURSIVE EndOfRun(_, _)
EndOfRun(s, i) ==
    IF i <= Len(s) /\ isspace(s[i]) THEN EndOfRun(s, i + 1) ELSE i

\* re.split(r'(?<=[.!?])\s+', s): s cut at each whitespace run that follows
\* a '.', '!' or '?'
RECURSIVE reSplitFrom(_, _, _)
reSplitFrom(s, i, cur) ==
    IF i > Len(s) THEN <<cur>>
    ELSE IF isspace(s[i]) /\ i > 1 /\ s[i - 1] \in SentenceEnd
         THEN <<cur>> \o reSplitFrom(s, EndOfRun(s, i), <<>>)
         ELSE reSplitFrom(s, i + 1, Append(cur, s[i]))

reSplitSentences(s) == reSplitFrom(s, 1, <<>>)

\* re.sub(r'\b[iI]z\b', 'is', s): "iz" or "Iz" standing as a whole word
IzAt(s, i) ==
    /\ i + 1 <= Len(s)
    /\ s[i] \in {"i", "I"}
    /\ s[i + 1] = "z"
    /\ (i = 1 \/ ~IsWordChar(s[i - 1]))
    /\ (i + 1 = Len(s) \/ ~IsWordChar(s[i + 2]))

reSubIz(s) ==
    [i \in 1..Len(s) |->
        IF IzAt(s, i) THEN "i"
        ELSE IF i > 1 /\ IzAt(s, i - 1) THEN "s"
        ELSE s[i]]

----------------------------------------------------------------------------
(* normalize_text *)

\* s.rstrip('.!?').split() of one corrected sentence
WordsOf(s) == split(rstripSet(s, SentenceEnd))

\* An outcome of a call: the exception that escaped it, or its value
Raised(e) == [exc |-> e, text |-> <<>>, ws |-> 0]
NotCalled == [exc |-> "not called", text |-> <<>>, ws |-> 0]

\* normalize_text as it would be if it counted the whitespace of the trimmed
\* text
normalize_text_counts_trimmed(text) ==
    LET sentences == reSplitSentences(strip(text))
        normalized_sentences ==
            [k \in 1..Len(sentences) |-> capitalize(sentences[k])]
        corrected_sentences ==
            [k \in 1..Len(sentences) |-> reSubIz(normalized_sentences[k])]
        trimmed == strip(text)
        whitespace_count ==
            Cardinality({i \in 1..Len(trimmed) : isspace(trimmed[i])})
    IN  IF \E k \in 1..Len(sentences) : WordsOf(corrected_sentences[k]) = <<>>
        THEN Raised("IndexError")      \* [][-1] of an empty list of words
        ELSE LET last_words ==
                     [k \in 1..Len(sentences) |->
                         LET w == WordsOf(corrected_sentences[k]) IN w[Len(w)]]
                 new_sentence == capitalize(join(last_words)) \o <<".">>
             IN  [exc |-> NoExc,
                  text |-> join(Append(corrected_sentences, new_sentence)),
                  ws |-> whitespace_count]

normalize_text(text) ==
    LET sentences == reSplitSentences(strip(text))
        normalized_sentences ==
            [k \in 1..Len(sentences) |-> capitalize(sentences[k])]
        corrected_sentences ==
            [k \in 1..Len(sentences) |-> reSubIz(normalized_sentences[k])]
        whitespace_count == Cardinality({i \in 1..Len(text) : isspace(text[i])})
    IN  IF \E k \in 1..Len(sentences) : WordsOf(corrected_sentences[k]) = <<>>
        THEN Raised("IndexError")      \* [][-1] of an empty list of words
        ELSE LET last_words ==
                     [k \in 1..Len(sentences) |->
                         LET w == WordsOf(corrected_sentences[k]) IN w[Len(w)]]
                 new_sentence == capitalize(join(last_words)) \o <<".">>
             IN  [exc |-> NoExc,
                  text |-> join(Append(corrected_sentences, new_sentence)),
                  ws |-> whitespace_count]

----------------------------------------------------------------------------
(* Dates and the clock *)

\* Bounds of the model
TicksPerDay == 2     \* the clock's resolution: ticks in one day
MaxTicks == 1        \* how far the clock advances in one run
MaxBatch == 2        \* items in one source file
MaxFeed == 2         \* lines in news_feed.txt
MaxSeq == 3          \* insert statements run against the tables
MaxText == 3         \* characters of a text given to the normaliser or analytics
MaxCalls == 2        \* analytics updates that are counted
MaxList == 3         \* elements of a list given to bubble_sort
MaxVal == 2          \* the largest integer in such a list, and in a dictionary
MaxDicts == 2        \* dictionaries in a list given to merge_dicts

DigitVal(c) ==
    CASE c = "0" -> 0 [] c = "1" -> 1 [] c = "2" -> 2 [] c = "3" -> 3
      [] c = "4" -> 4 [] c = "5" -> 5 [] c = "6" -> 6 [] c = "7" -> 7
      [] c = "8" -> 8 [] c = "9" -> 9

IsDigits(s) == \A i \in 1..Len(s) : s[i] \in Digits

RECURSIVE ToInt(_)
ToInt(s) == IF s = <<>> THEN 0
            ELSE 10 * ToInt(SubSeq(s, 1, Len(s) - 1)) + DigitVal(s[Len(s)])

IsLeap(y) == y % 4 = 0 /\ (y % 100 # 0 \/ y % 400 = 0)

DaysInMonth(y, m) ==
    IF m = 2 THEN (IF IsLeap(y) THEN 29 ELSE 28)
    ELSE IF m \in {4, 6, 9, 11} THEN 30 ELSE 31

RECURSIVE DaysBeforeMonth(_, _)
DaysBeforeMonth(y, m) ==
    IF m = 1 THEN 0 ELSE DaysBeforeMonth(y, m - 1) + DaysInMonth(y, m - 1)

\* datetime.toordinal: the day's number, 0001-01-01 being day 1
Ordinal(y, m, d) ==
    LET p == y - 1
    IN  p * 365 + (p \div 4) - (p \div 100) + (p \div 400)
          + DaysBeforeMonth(y, m) + d

\* datetime.datetime.strptime(date, '%Y-%m-%d'): the day's ordinal (the time
\* of day is midnight), ValueError for a string that is no date in this
\* format, TypeError for None.  %Y is four digits; %m and %d are one or two
\* digits, %d also a space and a digit.
strptime(date) ==
    IF date = None THEN [exc |-> "TypeError", ord |-> 0]
    ELSE LET parts == splitOn(date, "-")
             dd == IF Len(parts) = 3 /\ Len(parts[3]) = 2 /\ parts[3][1] = " "
                   THEN Tail(parts[3]) ELSE IF Len(parts) = 3 THEN parts[3]
                   ELSE <<>>
             wellFormed ==
                 /\ Len(parts) = 3
                 /\ Len(parts[1]) = 4 /\ IsDigits(parts[1])
                 /\ Len(parts[2]) \in {1, 2} /\ IsDigits(parts[2])
                 /\ Len(dd) \in {1, 2} /\ IsDigits(dd)
                 /\ (parts[3][1] = " " => dd[1] # "0")
             y == ToInt(parts[1])
             m == ToInt(parts[2])
             d == ToInt(dd)
         IN  IF wellFormed /\ y >= 1 /\ m \in 1..12 /\ d \in 1..DaysInMonth(y, m)
             THEN [exc |-> NoExc, ord |-> Ordinal(y, m, d)]
             ELSE [exc |-> "ValueError", ord |-> 0]

\* The difference taken the other way round: now - date
DaysSince(ord, t) == (t - ord * TicksPerDay) \div TicksPerDay

\* (date - datetime.datetime.now()).days at clock t: timedelta.days is the
\* floor of the difference in days
DaysUntil(ord, t) == (ord * TicksPerDay - t) \div TicksPerDay

----------------------------------------------------------------------------
(* The record classes *)

\* str(x) inside an f-string: None is formatted as the word None
Str(x) == IF x = None THEN <<"N", "o", "n", "e">> ELSE x

NoRec == [kind |-> "none"]

\* No load_from_xml call is running
NoPass == [pc |-> "none"]

\* News(text, city) constructed at clock t.  publish_date is the clock
\* reading formatted to the second; the clock's tick is the model's unit.
News(text, city, t) ==
    [exc |-> NoExc,
     rec |-> [kind |-> "News", text |-> text, city |-> city,
              publish_date |-> t]]

\* PrivateAd as it would be if it refused an expiration date that has passed
PrivateAd_rejects_expired(text, expiration_date, t) ==
    LET d == strptime(expiration_date)
    IN  IF d.exc # NoExc THEN [exc |-> d.exc, rec |-> NoRec]
        ELSE IF d.ord * TicksPerDay < t
        THEN [exc |-> "ValueError", rec |-> NoRec]
        ELSE [exc |-> NoExc,
              rec |-> [kind |-> "PrivateAd", text |-> text,
                       expiration_date |-> d.ord,
                       days_left |-> (d.ord * TicksPerDay - t) \div TicksPerDay,
                       publish_date |-> t]]

\* PrivateAd(text, expiration_date) constructed at clock t
PrivateAd(text, expiration_date, t) ==
    LET d == strptime(expiration_date)
    IN  IF d.exc # NoExc THEN [exc |-> d.exc, rec |-> NoRec]
        ELSE [exc |-> NoExc,
              rec |-> [kind |-> "PrivateAd", text |-> text,
                       expiration_date |-> d.ord,
                       days_left |-> DaysUntil(d.ord, t),
                       publish_date |-> t]]

\* Event(text, location, event_date) constructed at clock t
Event(text, location, event_date, t) ==
    LET d == strptime(event_date)
    IN  IF d.exc # NoExc THEN [exc |-> d.exc, rec |-> NoRec]
        ELSE [exc |-> NoExc,
              rec |-> [kind |-> "Event", text |-> text, location |-> location,
                       event_date |-> d.ord,
                       days_until_event |-> DaysUntil(d.ord, t),
                       publish_date |-> t]]

----------------------------------------------------------------------------
(* The flat-file sink and the analytics artifacts *)

\* A file that does not exist, and the artifacts before their first write
Missing == [exists |-> FALSE, items |-> <<>>]
File(items) == [exists |-> TRUE, items |-> items]
NoWordCount == [exists |-> FALSE, rows |-> <<>>]
NoLetterCount == [exists |-> FALSE, row |-> <<>>]

\* A handler's effects so far: the files it writes, what it did in order,
\* the exception that ended it, and the clock it reads
World(f, wc, lc, t) ==
    [feed |-> f, wordCount |-> wc, letterCount |-> lc, events |-> <<>>,
     exc |-> NoExc, t |-> t]

Did(name, text) == [ev |-> name, text |-> text]

\* The text written by one save_to_file call: the formatted fields, which
\* the file holds separated by single spaces (and the literal labels
\* "Days left:" / "Days until event:") and closed by a newline
FormatLine(rec) ==
    IF rec.kind = "News"
    THEN [publish_date |-> rec.publish_date, city |-> Str(rec.city),
          text |-> Str(rec.text)]
    ELSE IF rec.kind = "PrivateAd"
    THEN [publish_date |-> rec.publish_date, text |-> Str(rec.text),
          days_left |-> rec.days_left]
    ELSE [publish_date |-> rec.publish_date, location |-> Str(rec.location),
          text |-> Str(rec.text), days_until_event |-> rec.days_until_event]

\* save_to_file as it would be if it left out a record whose line the file
\* already holds
save_to_file_dedup(W, rec) ==
    [W EXCEPT !.feed = IF \E k \in 1..Len(W.feed) : W.feed[k] = FormatLine(rec)
                       THEN @ ELSE Append(@, FormatLine(rec)),
              !.events = Append(@, Did("save_to_file", rec.text))]

\* record.save_to_file(file_name): open in append mode, write one string
save_to_file(W, rec) ==
    [W EXCEPT !.feed = Append(@, FormatLine(rec)),
              !.events = Append(@, Did("save_to_file", rec.text))]

\* The loop of update_word_count: the dict as the sequence of its
\* (word, count) items, in insertion order
RECURSIVE CountWords(_, _)
CountWords(words, word_count) ==
    IF words = <<>> THEN word_count
    ELSE LET word == Head(words)
             known == {k \in 1..Len(word_count) : word_count[k][1] = word}
         IN  CountWords(Tail(words),
                 IF known = {} THEN Append(word_count, <<word, 1>>)
                 ELSE [k \in 1..Len(word_count) |->
                          IF k \in known
                          THEN <<word, word_count[k][2] + 1>>
                          ELSE word_count[k]])

\* update_word_count as it would be if it went on counting from the rows the
\* file already holds
update_word_count_cumulative(W, text) ==
    IF text = None
    THEN [W EXCEPT !.exc = "AttributeError"]
    ELSE [W EXCEPT !.wordCount =
                       [exists |-> TRUE,
                        rows |-> CountWords(split(lower(text)),
                                            W.wordCount.rows)],
                   !.events = Append(@, Did("update_word_count", text))]

\* NewsFeed.update_word_count(text): the file is opened with 'w' and holds
\* the header and one row per word of this text
update_word_count(W, text) ==
    IF text = None
    THEN [W EXCEPT !.exc = "AttributeError"]              \* None.lower()
    ELSE [W EXCEPT !.wordCount =
                       [exists |-> TRUE,
                        rows |-> CountWords(split(lower(text)), <<>>)],
                   !.events = Append(@, Did("update_word_count", text))]

\* NewsFeed.update_letter_count(text): the file is opened with 'w' and holds
\* the header and one row.  The percentage is the quotient num / den.
update_letter_count(W, text) ==
    IF text = None
    THEN [W EXCEPT !.exc = "TypeError"]                   \* for char in None
    ELSE LET letters == {i \in 1..Len(text) : isalpha(text[i])}
             total_letters == Cardinality(letters)
             uppercase_count ==
                 Cardinality({i \in letters : isupper(text[i])})
         IN  [W EXCEPT
                !.letterCount =
                    [exists |-> TRUE,
                     row |-> [text |-> text, count_all |-> total_letters,
                              count_uppercase |-> uppercase_count,
                              percentage |->
                                 IF total_letters # 0
                                 THEN [num |-> uppercase_count * 100,
                                       den |-> total_letters]
                                 ELSE [num |-> 0, den |-> 1]]],
                !.events = Append(@, Did("update_letter_count", text))]

\* The three statements that follow a record's construction in the JSON and
\* XML loaders and in add_record of Tasks 8 and 9
SaveAndCount(W, rec) ==
    LET W1 == save_to_file(W, rec)
        W2 == update_word_count(W1, rec.text)
    IN  IF W2.exc # NoExc THEN W2 ELSE update_letter_count(W2, rec.text)

----------------------------------------------------------------------------
(* The adapters of the flat-file programs (Tasks 6, 8, 9) *)

Raise(W, e) == [W EXCEPT !.exc = e]
Printed(W, what) == [W EXCEPT !.events = Append(@, Did("print", what))]

T_News == <<"N", "e", "w", "s">>
T_PrivateAd == <<"P", "r", "i", "v", "a", "t", "e", "A", "d">>
T_Event == <<"E", "v", "e", "n", "t">>
T_news == <<"n", "e", "w", "s">>
T_private_ad == <<"p", "r", "i", "v", "a", "t", "e", "_", "a", "d">>
T_event == <<"e", "v", "e", "n", "t">>

\* dict.get(key): None for a key the object lacks
Get(d, key) == IF key \in DOMAIN d THEN d[key] ELSE None

\* One pass of the for loop of load_from_json over one object of the array
JsonItem(W, record_data) ==
    LET record_type == Get(record_data, "type")
        text == Get(record_data, "text")
        made ==
            IF record_type = T_news
            THEN News(text, Get(record_data, "city"), W.t)
            ELSE IF record_type = T_private_ad
            THEN PrivateAd(text, Get(record_data, "expiration_date"), W.t)
            ELSE Event(text, Get(record_data, "location"),
                       Get(record_data, "event_date"), W.t)
    IN  IF record_type \notin {T_news, T_private_ad, T_event}
        THEN Printed(W, Str(record_type))       \* Unknown record type; continue
        ELSE IF made.exc # NoExc THEN Raise(W, made.exc)
        ELSE SaveAndCount(W, made.rec)

\* record.find(tag).text.strip() of an element: AttributeError when the
\* element has no such child (find gives None) or the child is empty (its
\* text is None)
FindText(record, tag) ==
    IF tag \notin DOMAIN record.children \/ record.children[tag] = None
    THEN [exc |-> "AttributeError", text |-> <<>>]
    ELSE [exc |-> NoExc, text |-> strip(record.children[tag])]

\* The part of the for loop of load_from_xml that Tasks 9 and 10 share: from
\* a <record> element to the constructed record, an exception, or no record
\* for an unknown type
XmlRecord(record, t) ==
    LET record_type == Get(record.attrib, "type")
        text == FindText(record, "text")
        city == FindText(record, "city")
        expiration_date == FindText(record, "expiration_date")
        location == FindText(record, "location")
        event_date == FindText(record, "event_date")
        Fail(e) == [exc |-> e, rec |-> NoRec, unknown |-> FALSE]
        Made(m) == [exc |-> m.exc, rec |-> m.rec, unknown |-> FALSE]
    IN  IF text.exc # NoExc THEN Fail(text.exc)
        ELSE IF record_type = T_news
        THEN (IF city.exc # NoExc THEN Fail(city.exc)
              ELSE Made(News(text.text, city.text, t)))
        ELSE IF record_type = T_private_ad
        THEN (IF expiration_date.exc # NoExc THEN Fail(expiration_date.exc)
              ELSE Made(PrivateAd(text.text, expiration_date.text, t)))
        ELSE IF record_type = T_event
        THEN (IF location.exc # NoExc THEN Fail(location.exc)
              ELSE IF event_date.exc # NoExc THEN Fail(event_date.exc)
              ELSE Made(Event(text.text, location.text, event_date.text, t)))
        ELSE [exc |-> NoExc, rec |-> NoRec, unknown |-> TRUE]

\* One pass of the for loop of Task 9's load_from_xml over one element
XmlItem(W, record) ==
    LET made == XmlRecord(record, W.t)
    IN  IF made.exc # NoExc THEN Raise(W, made.exc)
        ELSE IF made.unknown
        THEN Printed(W, Str(Get(record.attrib, "type")))
        ELSE SaveAndCount(W, made.rec)

\* One pass of the for loop of process_file over one line of the file
LineItem(W, line) ==
    LET parts == splitOn(strip(line), "|")
        record_type == strip(parts[1])
        text == strip(parts[2])
        normalized == normalize_text(text)
        made ==
            IF record_type = T_News /\ Len(parts) = 3
            THEN News(normalized.text, strip(parts[3]), W.t)
            ELSE IF record_type = T_PrivateAd /\ Len(parts) = 3
            THEN PrivateAd(normalized.text, strip(parts[3]), W.t)
            ELSE Event(normalized.text, strip(parts[3]), strip(parts[4]), W.t)
    IN  IF Len(parts) < 2 THEN Raise(W, "IndexError")          \* parts[1]
        ELSE IF normalized.exc # NoExc THEN Raise(W, normalized.exc)
        ELSE IF ~ \/ record_type = T_News /\ Len(parts) = 3
                  \/ record_type = T_PrivateAd /\ Len(parts) = 3
                  \/ record_type = T_Event /\ Len(parts) = 4
        THEN Printed(W, line)              \* Invalid record format; continue
        ELSE IF made.exc # NoExc THEN Raise(W, made.exc)
        ELSE save_to_file(W, made.rec)

\* The for loops: the items in order, ended by the first exception
RECURSIVE JsonLoop(_, _)
JsonLoop(W, items) ==
    IF items = <<>> \/ W.exc # NoExc THEN W
    ELSE JsonLoop(JsonItem(W, Head(items)), Tail(items))

RECURSIVE XmlLoop(_, _)
XmlLoop(W, items) ==
    IF items = <<>> \/ W.exc # NoExc THEN W
    ELSE XmlLoop(XmlItem(W, Head(items)), Tail(items))

RECURSIVE LineLoop(_, _)
LineLoop(W, items) ==
    IF items = <<>> \/ W.exc # NoExc THEN W
    ELSE LineLoop(LineItem(W, Head(items)), Tail(items))

----------------------------------------------------------------------------
(* The state machine of the flat-file programs *)

TxtPath == "records.txt"
JsonPath == "records.json"
XmlPath == "records.xml"
Paths == {TxtPath, JsonPath, XmlPath}

\* The run starts at noon of this day
StartDay == Ordinal(2026, 11, 2)
StartClock == StartDay * TicksPerDay + 1

D_future == <<"2", "0", "9", "9", "-", "0", "1", "-", "0", "1">>
D_past == <<"2", "0", "2", "0", "-", "0", "1", "-", "0", "1">>
D_invalid == <<"2", "0", "2", "6", "-", "0", "2", "-", "3", "0">>
Bar == <<"|">>

\* The objects a JSON source file is drawn from
JsonItems ==
    { [type |-> T_news, text |-> <<"a", " ", "A">>, city |-> <<"X">>],
      [type |-> T_news, city |-> <<"X">>],
      [type |-> T_news, text |-> <<" ">>, city |-> <<"X">>],
      [type |-> T_private_ad, text |-> <<"b">>, expiration_date |-> D_past],
      [type |-> T_private_ad, text |-> <<"b">>, expiration_date |-> D_invalid],
      [type |-> T_event, text |-> <<"a">>, location |-> <<"L">>,
       event_date |-> D_future],
      [type |-> <<"b", "l", "o", "g">>] }

Element(type, children) == [attrib |-> [type |-> type], children |-> children]

\* The <record> elements an XML source file is drawn from
XmlItems ==
    { Element(T_news, [text |-> <<"a", " ", "A">>, city |-> <<"X">>]),
      Element(T_news, [text |-> <<" ">>, city |-> <<"X">>]),
      Element(T_news, [city |-> <<"X">>]),
      Element(T_private_ad, [text |-> <<"b">>, expiration_date |-> D_past]),
      Element(T_private_ad, [text |-> <<"b">>, expiration_date |-> D_invalid]),
      Element(T_event, [text |-> <<"a">>, location |-> <<"L">>,
                        event_date |-> D_future]),
      Element(<<"b", "l", "o", "g">>, [text |-> <<"a">>]),
      Element(<<"b", "l", "o", "g">>, [city |-> <<"X">>]) }

\* The lines a delimited source file is drawn from
Lines ==
    { T_News \o Bar \o <<"a", " ", "i", "z", ".">> \o Bar \o <<"X">>,
      T_News \o Bar \o Bar \o <<"X">>,
      T_News \o Bar \o <<"a">>,
      T_PrivateAd \o Bar \o <<"b">> \o Bar \o D_past,
      T_PrivateAd \o Bar \o <<"b">> \o Bar \o D_invalid,
      T_Event \o Bar \o <<"a">> \o Bar \o <<"L">> \o Bar \o D_future,
      <<"B", "l", "o", "g">> \o Bar \o <<"a">> \o Bar \o <<"X">>,
      <<"B", "l", "o", "g">>,
      <<>> }

ItemsOf(path) ==
    IF path = TxtPath THEN Lines
    ELSE IF path = JsonPath THEN JsonItems ELSE XmlItems

Batches(S) == UNION {[1..n -> S] : n \in 0..MaxBatch}

NoTable == [rows |-> <<>>, seq |-> 0]

InitFiles ==
    /\ fs = [p \in Paths |-> Missing]
    /\ feed = <<>>
    /\ wordCount = NoWordCount
    /\ letterCount = NoLetterCount
    /\ db = [News |-> NoTable, PrivateAd |-> NoTable, Event |-> NoTable]
    /\ now = StartClock
    /\ call = [op |-> "start", path |-> ""]
    /\ raised = NoExc
    /\ events = <<>>
    /\ normOut = NotCalled
    /\ countIn = [word |-> None, letter |-> None, calls |-> 0]
    /\ added = NoRec
    /\ pass = NoPass

\* No bubble_sort and no merge_dicts call has been made
NoSort == [pc |-> "none"]
NoMerge == [pc |-> "none"]

Init ==
    /\ InitFiles
    /\ normIn = <<>>
    /\ sortCall = NoSort
    /\ mergeCall = NoMerge

\* The operator drops a source file for an adapter to consume.  The model
\* holds one source file at a time, with no more items than the feed has
\* room for lines.
WriteSource(path, items) ==
    /\ \A p \in Paths : ~fs[p].exists
    /\ Len(feed) + Len(items) <= MaxFeed
    /\ fs' = [fs EXCEPT ![path] = File(items)]
    /\ call' = [op |-> "write", path |-> path]
    /\ raised' = NoExc
    /\ events' = <<>>
    /\ UNCHANGED <<feed, wordCount, letterCount, db, now, normIn, normOut, countIn,
                   added, pass, sortCall, mergeCall>>

\* process_file as it would be if it removed the source file only after a
\* pass that saved a record
process_file_keeps_unsaved ==
    /\ call' = [op |-> "process_file", path |-> TxtPath]
    /\ IF ~fs[TxtPath].exists
       THEN /\ raised' = NoExc
            /\ events' = <<Did("no_file", <<>>)>>
            /\ UNCHANGED <<fs, feed, wordCount, letterCount>>
       ELSE \E W \in {LineLoop(World(feed, wordCount, letterCount, now),
                                fs[TxtPath].items)} :
              /\ Len(W.feed) <= MaxFeed
              /\ raised' = W.exc
              /\ events' = W.events
              /\ feed' = W.feed
              /\ wordCount' = W.wordCount
              /\ letterCount' = W.letterCount
              /\ fs' = IF W.exc = NoExc /\ W.feed # feed
                       THEN [fs EXCEPT ![TxtPath] = Missing]
                       ELSE fs
    /\ UNCHANGED <<db, now, normIn, normOut, countIn,
                   added, pass, sortCall, mergeCall>>

\* FileRecordProcessor.process_file() of Task 6: the exists check, the
\* loop over the lines and, when the loop ends without an exception,
\* os.remove
process_file ==
    /\ call' = [op |-> "process_file", path |-> TxtPath]
    /\ IF ~fs[TxtPath].exists
       THEN /\ raised' = NoExc
            /\ events' = <<Did("no_file", <<>>)>>
            /\ UNCHANGED <<fs, feed, wordCount, letterCount>>
       ELSE \E W \in {LineLoop(World(feed, wordCount, letterCount, now),
                                fs[TxtPath].items)} :
              /\ Len(W.feed) <= MaxFeed
              /\ raised' = W.exc
              /\ events' = W.events
              /\ feed' = W.feed
              /\ wordCount' = W.wordCount
              /\ letterCount' = W.letterCount
              /\ fs' = IF W.exc = NoExc THEN [fs EXCEPT ![TxtPath] = Missing]
                       ELSE fs
    /\ UNCHANGED <<db, now, normIn, normOut, countIn,
                   added, pass, sortCall, mergeCall>>

\* load_from_json as it would be without the exists check: open() raises
\* for a file that is not there
load_from_json_unchecked ==
    /\ call' = [op |-> "load_from_json", path |-> JsonPath]
    /\ IF ~fs[JsonPath].exists
       THEN /\ raised' = "FileNotFoundError"
            /\ events' = <<>>
            /\ UNCHANGED <<fs, feed, wordCount, letterCount>>
       ELSE \E W \in {JsonLoop(World(feed, wordCount, letterCount, now),
                                fs[JsonPath].items)} :
              /\ Len(W.feed) <= MaxFeed
              /\ raised' = W.exc
              /\ events' = W.events
              /\ feed' = W.feed
              /\ wordCount' = W.wordCount
              /\ letterCount' = W.letterCount
              /\ fs' = IF W.exc = NoExc THEN [fs EXCEPT ![JsonPath] = Missing]
                       ELSE fs
    /\ UNCHANGED <<db, now, normIn, normOut, countIn,
                   added, pass, sortCall, mergeCall>>

\* NewsFeed.load_from_json(json_file_path) of Tasks 8 and 9
load_from_json ==
    /\ call' = [op |-> "load_from_json", path |-> JsonPath]
    /\ IF ~fs[JsonPath].exists
       THEN /\ raised' = NoExc
            /\ events' = <<Did("no_file", <<>>)>>
            /\ UNCHANGED <<fs, feed, wordCount, letterCount>>
       ELSE \E W \in {JsonLoop(World(feed, wordCount, letterCount, now),
                                fs[JsonPath].items)} :
              /\ Len(W.feed) <= MaxFeed
              /\ raised' = W.exc
              /\ events' = W.events
              /\ feed' = W.feed
              /\ wordCount' = W.wordCount
              /\ letterCount' = W.letterCount
              /\ fs' = IF W.exc = NoExc THEN [fs EXCEPT ![JsonPath] = Missing]
                       ELSE fs
    /\ UNCHANGED <<db, now, normIn, normOut, countIn,
                   added, pass, sortCall, mergeCall>>

\* A loader that removes the source file however the loop ended
load_from_xml_always_removes ==
    /\ call' = [op |-> "load_from_xml", path |-> XmlPath]
    /\ IF ~fs[XmlPath].exists
       THEN /\ raised' = NoExc
            /\ events' = <<Did("no_file", <<>>)>>
            /\ UNCHANGED <<fs, feed, wordCount, letterCount>>
       ELSE \E W \in {XmlLoop(World(feed, wordCount, letterCount, now),
                                fs[XmlPath].items)} :
              /\ Len(W.feed) <= MaxFeed
              /\ raised' = W.exc
              /\ events' = W.events
              /\ feed' = W.feed
              /\ wordCount' = W.wordCount
              /\ letterCount' = W.letterCount
              /\ fs' = [fs EXCEPT ![XmlPath] = Missing]
    /\ UNCHANGED <<db, now, normIn, normOut, countIn,
                   added, pass, sortCall, mergeCall>>

\* XMLLoader.load_from_xml(xml_file_path) of Task 9
load_from_xml ==
    /\ call' = [op |-> "load_from_xml", path |-> XmlPath]
    /\ IF ~fs[XmlPath].exists
       THEN /\ raised' = NoExc
            /\ events' = <<Did("no_file", <<>>)>>
            /\ UNCHANGED <<fs, feed, wordCount, letterCount>>
       ELSE \E W \in {XmlLoop(World(feed, wordCount, letterCount, now),
                                fs[XmlPath].items)} :
              /\ Len(W.feed) <= MaxFeed
              /\ raised' = W.exc
              /\ events' = W.events
              /\ feed' = W.feed
              /\ wordCount' = W.wordCount
              /\ letterCount' = W.letterCount
              /\ fs' = IF W.exc = NoExc THEN [fs EXCEPT ![XmlPath] = Missing]
                       ELSE fs
    /\ UNCHANGED <<db, now, normIn, normOut, countIn,
                   added, pass, sortCall, mergeCall>>

Next ==
    \/ \E path \in Paths : \E items \in Batches(ItemsOf(path)) :
           WriteSource(path, items)
    \/ process_file
    \/ load_from_json
    \/ load_from_xml

Spec == Init /\ [][Next]_vars

----------------------------------------------------------------------------
(* The interactive program (Tasks 5, 8) *)

\* What the operator may type at the prompts of add_record
Choices == {"1", "2", "3", "4"}
AddTexts == {<<"a", " ", "A">>}
D_today == <<"2", "0", "2", "6", "-", "1", "1", "-", "0", "2">>
D_tomorrow == <<"2", "0", "2", "6", "-", "1", "1", "-", "0", "3">>
AddDates == {D_past, D_today, D_tomorrow, D_future, D_invalid}

\* NewsFeed.add_record() of Task 8 (Task 9's __main__ calls it as well): the
\* choice and the fields are typed at the prompts; input() gives strings
add_record(choice, text, date) ==
    LET typed == IF choice = "1" THEN <<text, <<"X">>>>
                 ELSE IF choice = "2" THEN <<text, date>>
                 ELSE IF choice = "3" THEN <<text, <<"L">>, date>>
                 ELSE <<>>
        inputs == [k \in 1..(Len(typed) + 1) |->
                      Did("input", IF k = 1 THEN <<choice>> ELSE typed[k - 1])]
        W0 == [World(feed, wordCount, letterCount, now) EXCEPT !.events = inputs]
        made == IF choice = "1" THEN News(text, <<"X">>, now)
                ELSE IF choice = "2" THEN PrivateAd(text, date, now)
                ELSE Event(text, <<"L">>, date, now)
    IN  \E W \in {IF choice \notin {"1", "2", "3"}
                  THEN Printed(W0, <<"Invalid choice!">>)
                  ELSE IF made.exc # NoExc THEN Raise(W0, made.exc)
                  ELSE SaveAndCount(W0, made.rec)} :
            /\ Len(W.feed) <= MaxFeed
            /\ call' = [op |-> "add_record", path |-> choice]
            /\ raised' = W.exc
            /\ events' = W.events
            /\ feed' = W.feed
            /\ wordCount' = W.wordCount
            /\ letterCount' = W.letterCount
            /\ added' = IF choice \in {"1", "2", "3"} /\ made.exc = NoExc
                        THEN made.rec ELSE NoRec
            /\ UNCHANGED <<fs, db, now, normIn, normOut, countIn, sortCall,
                           mergeCall, pass>>

\* Time passes between two calls: the wall clock moves on by one tick
Tick ==
    /\ now < StartClock + MaxTicks
    /\ now' = now + 1
    /\ UNCHANGED <<fs, feed, wordCount, letterCount, db, call, raised, events,
                   normIn, normOut, countIn,
                   added, pass, sortCall, mergeCall>>

NextAdd ==
    \/ \E choice \in Choices : \E text \in AddTexts : \E date \in AddDates :
           add_record(choice, text, date)
    \/ Tick

SpecAdd == Init /\ [][NextAdd]_vars

----------------------------------------------------------------------------
(* Task 9's load_from_xml statement by statement, the clock running *)

\* load_from_xml(xml_file_path) is called: the exists check, and the parse
\* that reads every <record> element before the loop starts
load_from_xml_enter ==
    /\ pass.pc = "none"
    /\ call' = [op |-> "load_from_xml", path |-> XmlPath]
    /\ raised' = NoExc
    /\ IF ~fs[XmlPath].exists
       THEN /\ events' = <<Did("no_file", <<>>)>>
            /\ UNCHANGED pass
       ELSE /\ events' = <<>>
            /\ pass' = [pc |-> "for", items |-> fs[XmlPath].items,
                        obj |-> NoRec]
    /\ UNCHANGED <<fs, feed, wordCount, letterCount, db, now, normIn, normOut,
                   countIn, added, sortCall, mergeCall>>

\* The loop takes its next element: from record.get("type") to the
\* constructor call, which reads the clock
load_from_xml_construct ==
    /\ pass.pc = "for"
    /\ pass.items # <<>>
    /\ \E made \in {XmlRecord(Head(pass.items), now)} :
           IF made.exc # NoExc
           THEN /\ pass' = NoPass
                /\ raised' = made.exc
                /\ UNCHANGED events
           ELSE IF made.unknown
           THEN /\ pass' = [pass EXCEPT !.items = Tail(@)]
                /\ events' = Append(events,
                       Did("print", Str(Get(Head(pass.items).attrib, "type"))))
                /\ UNCHANGED raised
           ELSE /\ pass' = [pass EXCEPT !.pc = "save", !.obj = made.rec]
                /\ UNCHANGED <<raised, events>>
    /\ UNCHANGED <<fs, feed, wordCount, letterCount, db, now, call, normIn,
                   normOut, countIn, added, sortCall, mergeCall>>

\* obj.save_to_file, update_word_count and update_letter_count with the
\* clock reading now
load_from_xml_save_stamps ==
    /\ pass.pc = "save"
    /\ Len(feed) < MaxFeed
    /\ \E W \in {SaveAndCount(World(feed, wordCount, letterCount, now),
                              [pass.obj EXCEPT !.publish_date = now])} :
           /\ feed' = W.feed
           /\ wordCount' = W.wordCount
           /\ letterCount' = W.letterCount
           /\ events' = events \o W.events
           /\ raised' = W.exc
           /\ pass' = IF W.exc # NoExc THEN NoPass
                      ELSE [pass EXCEPT !.pc = "for", !.items = Tail(@),
                                        !.obj = NoRec]
    /\ UNCHANGED <<fs, db, now, call, normIn, normOut, countIn, added,
                   sortCall, mergeCall>>

\* obj.save_to_file(file_name), update_word_count(obj.text) and
\* update_letter_count(obj.text) for the object the loop holds
load_from_xml_save ==
    /\ pass.pc = "save"
    /\ Len(feed) < MaxFeed
    /\ \E W \in {SaveAndCount(World(feed, wordCount, letterCount, now),
                              pass.obj)} :
           /\ feed' = W.feed
           /\ wordCount' = W.wordCount
           /\ letterCount' = W.letterCount
           /\ events' = events \o W.events
           /\ raised' = W.exc
           /\ pass' = IF W.exc # NoExc THEN NoPass
                      ELSE [pass EXCEPT !.pc = "for", !.items = Tail(@),
                                        !.obj = NoRec]
    /\ UNCHANGED <<fs, db, now, call, normIn, normOut, countIn, added,
                   sortCall, mergeCall>>

\* The loop is over: os.remove(xml_file_path), and the call returns
load_from_xml_remove ==
    /\ pass.pc = "for"
    /\ pass.items = <<>>
    /\ fs' = [fs EXCEPT ![XmlPath] = Missing]
    /\ pass' = NoPass
    /\ events' = Append(events, Did("remove", <<>>))
    /\ UNCHANGED <<feed, wordCount, letterCount, db, now, call, raised, normIn,
                   normOut, countIn, added, sortCall, mergeCall>>

NextPass ==
    \/ \E items \in Batches(XmlItems) : WriteSource(XmlPath, items)
    \/ load_from_xml_enter
    \/ load_from_xml_construct
    \/ load_from_xml_save
    \/ load_from_xml_remove
    \/ Tick

SpecPass == Init /\ [][NextPass]_vars

----------------------------------------------------------------------------
(* The SQLite sink and the XML loader of Task 10 *)

Tables == {"News", "PrivateAd", "Event"}

\* The tuple a record's save_to_db hands to insert_record: the columns
\* after id, in the table's order
RowOf(rec) ==
    IF rec.kind = "News"
    THEN [text |-> rec.text, city |-> rec.city,
          publish_date |-> rec.publish_date]
    ELSE IF rec.kind = "PrivateAd"
    THEN [text |-> rec.text, expiration_date |-> rec.expiration_date,
          days_left |-> rec.days_left, publish_date |-> rec.publish_date]
    ELSE [text |-> rec.text, location |-> rec.location,
          event_date |-> rec.event_date,
          days_until_event |-> rec.days_until_event,
          publish_date |-> rec.publish_date]

\* insert_record as it would be with no uniqueness constraint on text: every
\* statement inserts a row
insert_record_no_unique(D, table_name, record_data) ==
    LET table == D[table_name]
    IN  [D EXCEPT ![table_name] =
            [rows |-> Append(table.rows,
                             [id |-> table.seq + 1, row |-> record_data]),
             seq |-> table.seq + 1]]

\* DatabaseManager.insert_record: INSERT OR IGNORE INTO table VALUES (NULL,
\* ...) and commit.  text is UNIQUE: the statement is ignored when a row of
\* the table holds this text (NULL texts never conflict).  id is INTEGER
\* PRIMARY KEY AUTOINCREMENT: SQLite takes the next id before it meets the
\* conflict, so an ignored statement uses one up as well.
insert_record(D, table_name, record_data) ==
    LET table == D[table_name]
        conflict ==
            /\ record_data.text # None
            /\ \E k \in 1..Len(table.rows) :
                   table.rows[k].row.text = record_data.text
    IN  [D EXCEPT ![table_name] =
            [rows |-> IF conflict THEN table.rows
                      ELSE Append(table.rows,
                                  [id |-> table.seq + 1, row |-> record_data]),
             seq |-> table.seq + 1]]

DbWorld(D, t) == [db |-> D, events |-> <<>>, exc |-> NoExc, t |-> t]

\* record.save_to_db(db_manager)
save_to_db(W, rec) ==
    [W EXCEPT !.db = insert_record(@, rec.kind, RowOf(rec)),
              !.events = Append(@, Did("insert_record", rec.text))]

\* One pass of the for loop of Task 10's load_from_xml over one element
XmlDbItem(W, record) ==
    LET made == XmlRecord(record, W.t)
    IN  IF made.exc # NoExc THEN Raise(W, made.exc)
        ELSE IF made.unknown
        THEN Printed(W, Str(Get(record.attrib, "type")))
        ELSE save_to_db(W, made.rec)

RECURSIVE XmlDbLoop(_, _)
XmlDbLoop(W, items) ==
    IF items = <<>> \/ W.exc # NoExc THEN W
    ELSE XmlDbLoop(XmlDbItem(W, Head(items)), Tail(items))

\* The tables have taken at most MaxSeq insert statements together
Statements(D) == D["News"].seq + D["PrivateAd"].seq + D["Event"].seq
DbInBounds(D) == Statements(D) <= MaxSeq

\* The operator drops records.xml for the loader of Task 10.  The model
\* holds no more elements than the tables have room for statements.
WriteXml(items) ==
    /\ \A p \in Paths : ~fs[p].exists
    /\ Statements(db) + Len(items) <= MaxSeq
    /\ fs' = [fs EXCEPT ![XmlPath] = File(items)]
    /\ call' = [op |-> "write", path |-> XmlPath]
    /\ raised' = NoExc
    /\ events' = <<>>
    /\ UNCHANGED <<feed, wordCount, letterCount, db, now, normIn, normOut,
                   countIn, added, pass, sortCall, mergeCall>>

\* XMLLoader.load_from_xml(xml_file_path) of Task 10
load_from_xml_db ==
    /\ call' = [op |-> "load_from_xml_db", path |-> XmlPath]
    /\ IF ~fs[XmlPath].exists
       THEN /\ raised' = NoExc
            /\ events' = <<Did("no_file", <<>>)>>
            /\ UNCHANGED <<fs, db>>
       ELSE \E W \in {XmlDbLoop(DbWorld(db, now), fs[XmlPath].items)} :
              /\ DbInBounds(W.db)
              /\ raised' = W.exc
              /\ events' = W.events
              /\ db' = W.db
              /\ fs' = IF W.exc = NoExc THEN [fs EXCEPT ![XmlPath] = Missing]
                       ELSE fs
    /\ UNCHANGED <<feed, wordCount, letterCount, now, normIn, normOut,
                   countIn, added, pass, sortCall, mergeCall>>

\* The <record> elements the source file of Task 10's loader is drawn from
XmlDbItems ==
    { Element(T_news, [text |-> <<"a", " ", "A">>, city |-> <<"X">>]),
      Element(T_news, [text |-> <<" ">>, city |-> <<"X">>]),
      Element(T_private_ad, [text |-> <<"b">>, expiration_date |-> D_invalid]),
      Element(T_event, [text |-> <<"a">>, location |-> <<"L">>,
                        event_date |-> D_future]),
      Element(<<"b", "l", "o", "g">>, [city |-> <<"X">>]) }

\* What the operator may type at the prompts of Task 10's menu
MenuTexts == {<<"a", " ", "A">>}
MenuDates == {D_past, D_invalid}

\* Choices 1, 2 and 3 of the menu of Task 10: a record is constructed from
\* the typed fields and saved
menu_add(choice, text, date) ==
    LET made == IF choice = "1" THEN News(text, <<"X">>, now)
                ELSE IF choice = "2" THEN PrivateAd(text, date, now)
                ELSE Event(text, <<"L">>, date, now)
        W0 == DbWorld(db, now)
    IN  \E W \in {IF made.exc # NoExc THEN Raise(W0, made.exc)
                  ELSE save_to_db(W0, made.rec)} :
            /\ DbInBounds(W.db)
            /\ call' = [op |-> "menu_add", path |-> choice]
            /\ raised' = W.exc
            /\ events' = W.events
            /\ db' = W.db
            /\ UNCHANGED <<fs, feed, wordCount, letterCount, now, normIn,
                           normOut, countIn,
                           added, pass, sortCall, mergeCall>>

NextDb ==
    \/ \E items \in Batches(XmlDbItems) : WriteXml(items)
    \/ load_from_xml_db
    \/ \E choice \in {"1", "2", "3"} : \E text \in MenuTexts :
           \E date \in MenuDates : menu_add(choice, text, date)

SpecDb == Init /\ [][NextDb]_vars

----------------------------------------------------------------------------
(* The XML loaders of Task 9 and Task 10 in one run *)

\* An XML source file, which the loaders of Task 9 and Task 10 both read
NextBoth ==
    \/ \E items \in Batches(XmlDbItems) : WriteSource(XmlPath, items)
    \/ load_from_xml
    \/ load_from_xml_db

SpecBoth == Init /\ [][NextBoth]_vars

----------------------------------------------------------------------------
(* The normaliser and the analytics updates on their own *)

NormAlphabet == {"a", "i", "Z", " ", ".", "\n"}
CountAlphabet == {"a", "B", " "}
TextsOver(alphabet) == UNION {[1..n -> alphabet] : n \in 0..MaxText}

\* A text is given; normalize_text has not run yet
InitNorm ==
    /\ InitFiles
    /\ normIn \in TextsOver(NormAlphabet)
    /\ sortCall = NoSort
    /\ mergeCall = NoMerge

\* normalize_text(normIn) is called
Normalize ==
    /\ call.op = "start"
    /\ normOut' = normalize_text(normIn)
    /\ call' = [op |-> "normalize_text", path |-> ""]
    /\ UNCHANGED <<fs, feed, wordCount, letterCount, db, now, raised, events,
                   normIn, countIn,
                   added, pass, sortCall, mergeCall>>

SpecNorm == InitNorm /\ [][Normalize]_vars

\* news_feed.update_word_count(text) is called
UpdateWordCount(text) ==
    LET W == update_word_count(World(feed, wordCount, letterCount, now), text)
    IN  /\ raised' = W.exc
        /\ wordCount' = W.wordCount
        /\ countIn' = [countIn EXCEPT !.word = text,
                                   !.calls = IF @ < MaxCalls THEN @ + 1 ELSE @]
        /\ UNCHANGED <<fs, feed, letterCount, db, now, call, events, normIn,
                       normOut, added, pass, sortCall, mergeCall>>

\* news_feed.update_letter_count(text) is called
UpdateLetterCount(text) ==
    LET W == update_letter_count(World(feed, wordCount, letterCount, now), text)
    IN  /\ raised' = W.exc
        /\ letterCount' = W.letterCount
        /\ countIn' = [countIn EXCEPT !.letter = text,
                                   !.calls = IF @ < MaxCalls THEN @ + 1 ELSE @]
        /\ UNCHANGED <<fs, feed, wordCount, db, now, call, events, normIn,
                       normOut, added, pass, sortCall, mergeCall>>

NextCount ==
    \/ \E text \in TextsOver(CountAlphabet) : UpdateWordCount(text)
    \/ \E text \in TextsOver(CountAlphabet) : UpdateLetterCount(text)

SpecCount == Init /\ [][NextCount]_vars

----------------------------------------------------------------------------
(* bubble_sort of Task 1, one loop iteration at a step *)

\* The integers a list is drawn from, and the lists
Vals == -1..MaxVal
Lists == UNION {[1..n -> Vals] : n \in 0..MaxList}

\* bubble_sort(arr) has been called: n = len(arr), and the outer loop is
\* about to take its first value of i
InitSort ==
    /\ InitFiles
    /\ normIn = <<>>
    /\ mergeCall = NoMerge
    /\ sortCall \in {[pc |-> "for_i", arr0 |-> a, arr |-> a, n |-> Len(a),
                      i |-> 0, j |-> 0] : a \in Lists}

\* arr[j], arr[j + 1] = arr[j + 1], arr[j], with the indices of Python
swap(arr, j) ==
    [arr EXCEPT ![j + 1] = arr[j + 2], ![j + 2] = arr[j + 1]]

\* for i in range(n): the next value of i, or the end of the call
bubble_sort_outer ==
    /\ sortCall.pc = "for_i"
    /\ sortCall' = IF sortCall.i < sortCall.n
                   THEN [sortCall EXCEPT !.pc = "for_j", !.j = 0]
                   ELSE [sortCall EXCEPT !.pc = "done"]
    /\ UNCHANGED <<fs, feed, wordCount, letterCount, db, now, call, raised,
                   events, normIn, normOut, countIn, added, pass, mergeCall>>

\* bubble_sort_inner as it would be if the inner loop stopped one element
\* earlier
bubble_sort_inner_short ==
    /\ sortCall.pc = "for_j"
    /\ sortCall' =
           IF sortCall.j < sortCall.n - sortCall.i - 2
           THEN [sortCall EXCEPT
                    !.arr = IF @[sortCall.j + 1] > @[sortCall.j + 2]
                            THEN swap(@, sortCall.j) ELSE @,
                    !.j = @ + 1]
           ELSE [sortCall EXCEPT !.pc = "for_i", !.i = @ + 1]
    /\ UNCHANGED <<fs, feed, wordCount, letterCount, db, now, call, raised,
                   events, normIn, normOut, countIn, added, pass, mergeCall>>

\* for j in range(0, n - i - 1): one pass of the body for the next value of
\* j, or the end of the inner loop
bubble_sort_inner ==
    /\ sortCall.pc = "for_j"
    /\ sortCall' =
           IF sortCall.j < sortCall.n - sortCall.i - 1
           THEN [sortCall EXCEPT
                    !.arr = IF @[sortCall.j + 1] > @[sortCall.j + 2]
                            THEN swap(@, sortCall.j) ELSE @,
                    !.j = @ + 1]
           ELSE [sortCall EXCEPT !.pc = "for_i", !.i = @ + 1]
    /\ UNCHANGED <<fs, feed, wordCount, letterCount, db, now, call, raised,
                   events, normIn, normOut, countIn, added, pass, mergeCall>>

NextSort == bubble_sort_outer \/ bubble_sort_inner

SpecSort == InitSort /\ [][NextSort]_vars

\* The interpreter goes on executing the call's next statement
SpecSortFair == SpecSort /\ WF_vars(NextSort)

----------------------------------------------------------------------------
(* merge_dicts of Task 2 *)

\* The keys and the dictionaries a list is drawn from.  A dictionary is a
\* function from its keys to their values.
Keys == {<<"a">>, <<"b">>}
Dicts == UNION {[S -> 0..MaxVal] : S \in SUBSET Keys}
DictLists == UNION {[1..n -> Dicts] : n \in 0..MaxDicts}

\* str(n) of a natural number
RECURSIVE IntStr(_)
IntStr(n) ==
    LET digit == <<"0", "1", "2", "3", "4", "5", "6", "7", "8", "9">>
    IN  IF n < 10 THEN <<digit[n + 1]>>
        ELSE IntStr(n \div 10) \o <<digit[(n % 10) + 1]>>

\* The body of the outer loop for dictionary d at position index: every key
\* of d that is new, or whose value is greater than the one kept, is kept
\* with this index
MergeOne(acc, d, index) ==
    LET better == {key \in DOMAIN d :
                      \/ key \notin DOMAIN acc.merged_dict
                      \/ d[key] > acc.merged_dict[key]}
        keys == DOMAIN acc.merged_dict \cup DOMAIN d
    IN  [merged_dict |-> [key \in keys |->
                             IF key \in better THEN d[key]
                             ELSE acc.merged_dict[key]],
         key_tracker |-> [key \in keys |->
                             IF key \in better THEN index
                             ELSE acc.key_tracker[key]]]

\* for index, d in enumerate(list_of_dicts, start=1)
RECURSIVE MergeFrom(_, _, _)
MergeFrom(acc, list_of_dicts, index) ==
    IF index > Len(list_of_dicts) THEN acc
    ELSE MergeFrom(MergeOne(acc, list_of_dicts[index], index),
                   list_of_dicts, index + 1)

\* list_of_dicts.count(k): the number of elements of the list equal to k.
\* The elements are dictionaries and k is a string, and a dict never
\* compares equal to a str.
DictEqStr(d, k) == FALSE
count(list_of_dicts, k) ==
    Cardinality({n \in 1..Len(list_of_dicts) : DictEqStr(list_of_dicts[n], k)})

\* merge_dicts(list_of_dicts): the final dictionary, a function from the
\* final key names to the values
merge_dicts(list_of_dicts) ==
    LET empty == [key \in {} |-> 0]
        acc == MergeFrom([merged_dict |-> empty, key_tracker |-> empty],
                         list_of_dicts, 1)
        name(k) == IF count(list_of_dicts, k) > 1
                   THEN k \o <<"_">> \o IntStr(acc.key_tracker[k])
                   ELSE k
    IN  [nm \in {name(k) : k \in DOMAIN acc.merged_dict} |->
            acc.merged_dict[CHOOSE k \in DOMAIN acc.merged_dict : name(k) = nm]]

\* merge_dicts is about to be called on a list of dictionaries
InitMerge ==
    /\ InitFiles
    /\ normIn = <<>>
    /\ sortCall = NoSort
    /\ mergeCall \in {[pc |-> "called", list_of_dicts |-> l,
                       final_dict |-> <<>>] : l \in DictLists}

\* merge_dicts(list_of_dicts) runs and returns
Merge ==
    /\ mergeCall.pc = "called"
    /\ mergeCall' = [mergeCall EXCEPT
                        !.pc = "returned",
                        !.final_dict = merge_dicts(mergeCall.list_of_dicts)]
    /\ UNCHANGED <<fs, feed, wordCount, letterCount, db, now, call, raised,
                   events, normIn, normOut, countIn, added, pass, sortCall>>

SpecMerge == InitMerge /\ [][Merge]_vars

----------------------------------------------------------------------------
(* The claims *)

AdapterOps == {"process_file", "load_from_json", "load_from_xml"}
SinkWrites == {"save_to_file", "insert_record"}

\* C1: after any sequence of insert_record calls, no two rows of one table
\* hold the same text: a statement whose text the table already holds adds
\* no row (and raises nothing).
C1_UniqueText ==
    \A tn \in Tables :
        \A i, j \in 1..Len(db[tn].rows) :
            i # j => db[tn].rows[i].row.text # db[tn].rows[j].row.text

\* A table has ignored a statement: it has taken more statements than it
\* holds rows, and the call that ran last returned normally
C1_Witness ==
    /\ call.op \in {"menu_add", "load_from_xml_db"}
    /\ raised = NoExc
    /\ \E tn \in Tables :
           /\ Len(db[tn].rows) >= 1
           /\ db[tn].seq > Len(db[tn].rows)

\* C2: an item whose date string is no valid date is skipped by the adapter
\* loop: the ValueError of the record's construction never leaves an adapter
\* call.
C2_InvalidDateSkipped ==
    call.op \in AdapterOps => raised # "ValueError"

\* C3: after an adapter call that reached the end of its loop (it returned
\* without an exception), the source file is gone, however many items were
\* skipped.
C3_ConsumedAfterPass ==
    (call.op \in AdapterOps /\ raised = NoExc) => ~fs[call.path].exists

\* A pass over a file of which every line was skipped: the file is gone and
\* nothing was written
C3_Witness ==
    /\ call.op = "process_file"
    /\ raised = NoExc
    /\ Len(events) = MaxBatch
    /\ \A k \in 1..Len(events) : events[k].ev = "print"
    /\ ~fs[TxtPath].exists
    /\ feed = <<>>

\* C4: an adapter called on a source file that does not exist returns
\* without an exception and changes no file and no table.
C4_MissingSourceNoOp ==
    [][(call'.op \in AdapterOps /\ ~fs[call'.path].exists)
          => /\ raised' = NoExc
             /\ UNCHANGED <<fs, feed, wordCount, letterCount, db>>]_vars

\* An adapter has reported its source file missing while another adapter's
\* source file and earlier output were there to be kept
C4_Witness ==
    /\ call.op = "load_from_json"
    /\ events = <<Did("no_file", <<>>)>>
    /\ fs[XmlPath].exists
    /\ feed # <<>>
    /\ wordCount.exists

\* The variant discriminator of an item, as its adapter reads it
TypeOf(path, item) ==
    IF path = TxtPath THEN strip(splitOn(strip(item), "|")[1])
    ELSE IF path = JsonPath THEN Get(item, "type")
    ELSE Get(item.attrib, "type")

KnownTypes(path) ==
    IF path = TxtPath THEN {T_News, T_PrivateAd, T_Event}
    ELSE {T_news, T_private_ad, T_event}

\* C5: an item with an unknown discriminator produces no record and raises
\* nothing, whatever its other fields: a pass over a file that holds only
\* such items returns without an exception.  (A pass that raised leaves its
\* file in place.)
C5_UnknownTypeSkipped ==
    ( /\ call.op \in AdapterOps
      /\ fs[call.path].exists
      /\ \A k \in 1..Len(fs[call.path].items) :
             TypeOf(call.path, fs[call.path].items[k]) \notin KnownTypes(call.path) )
    => raised = NoExc

\* C6: normalize_text is total, and gives "." for a text that is empty after
\* trimming.
C6_Total ==
    call.op = "normalize_text"
    => /\ normOut.exc = NoExc
       /\ strip(normIn) = <<>> => normOut.text = <<".">>

\* C7: in every ingestion path, each sink write is followed by the two
\* analytics updates with the written record's text.
C7_WriteThenCount ==
    \A k \in 1..Len(events) :
        events[k].ev \in SinkWrites
        => /\ k + 2 <= Len(events)
           /\ events[k + 1] = Did("update_word_count", events[k].text)
           /\ events[k + 2] = Did("update_letter_count", events[k].text)

\* The number of times word w stands in the list words
Occurrences(words, w) == Cardinality({k \in 1..Len(words) : words[k] = w})

\* C8: the word-count file holds the tally of the lower-cased words of the
\* text given to the latest update_word_count and nothing else, and the
\* letter-count file holds the one row of the text given to the latest
\* update_letter_count.
C8_LatestOnly ==
    /\ wordCount.exists =>
          LET words == split(lower(countIn.word))
              rows == wordCount.rows
          IN  /\ {rows[k][1] : k \in 1..Len(rows)} = Range(words)
              /\ Len(rows) = Cardinality(Range(words))
              /\ \A k \in 1..Len(rows) :
                     rows[k][2] = Occurrences(words, rows[k][1])
    /\ letterCount.exists =>
          LET text == countIn.letter
              upper == {k \in 1..Len(text) : text[k] \in UpperLetters}
              letters == upper \cup {k \in 1..Len(text) : text[k] \in LowerLetters}
          IN  /\ letterCount.row.text = text
              /\ letterCount.row.count_all = Cardinality(letters)
              /\ letterCount.row.count_uppercase = Cardinality(upper)

\* Both files have been written more than once, last for texts with a
\* repeated word
C8_Witness ==
    /\ countIn.calls >= 2
    /\ wordCount.exists /\ letterCount.exists
    /\ countIn.word = <<"a", " ", "a">>
    /\ countIn.letter = <<"B", " ", "a">>

\* C9: no record whose text is missing or blank is written to a sink.
C9_NoBlankTextSaved ==
    \A k \in 1..Len(events) :
        events[k].ev \in SinkWrites
        => events[k].text # None /\ strip(events[k].text) # <<>>

\* A line that the delimited-line adapter accepts by its shape
Accepted(line) ==
    LET parts == splitOn(strip(line), "|")
        record_type == strip(parts[1])
    IN  \/ record_type = T_News /\ Len(parts) = 3
        \/ record_type = T_PrivateAd /\ Len(parts) = 3
        \/ record_type = T_Event /\ Len(parts) = 4

\* C10: a line that is not News with 3 fields, PrivateAd with 3 fields or
\* Event with 4 fields is skipped without an exception: a pass over a file
\* that holds only such lines returns without an exception.  (A pass that
\* raised leaves its file in place.)
C10_OtherLinesSkipped ==
    ( /\ call.op = "process_file"
      /\ fs[TxtPath].exists
      /\ \A k \in 1..Len(fs[TxtPath].items) : ~Accepted(fs[TxtPath].items[k]) )
    => raised = NoExc

\* The quotient a / b of integers, b > 0, truncated toward zero
TruncDiv(a, b) == IF a >= 0 THEN a \div b ELSE -((-a) \div b)

\* The whole days from clock reading t to midnight of day ord, truncated
\* toward zero
TruncDays(ord, t) == TruncDiv(ord * TicksPerDay - t, TicksPerDay)

\* C11: days_left of a PrivateAd and days_until_event of an Event are the
\* difference between the parsed date at midnight and the construction
\* instant in whole days, truncated toward zero (minus half a day gives 0).
C11_TruncatedTowardZero ==
    /\ added.kind = "PrivateAd" =>
           added.days_left
               = TruncDays(added.expiration_date, added.publish_date)
    /\ added.kind = "Event" =>
           added.days_until_event
               = TruncDays(added.event_date, added.publish_date)

\* The calendar day of clock reading t
DayOf(t) == t \div TicksPerDay

\* C12: a PrivateAd whose valid expiration date lies on an earlier calendar
\* day than the instant of its construction is constructed without an
\* exception, has a strictly negative days_left, and is saved to the sink.
C12_ExpiredAdAccepted ==
    [][( /\ call'.op = "add_record"
         /\ call'.path = "2"
         /\ now' = now                      \* the step is the call itself
         /\ strptime(events'[3].text).exc = NoExc
         /\ strptime(events'[3].text).ord < DayOf(now) )
       => /\ raised' = NoExc
          /\ added'.kind = "PrivateAd"
          /\ added'.days_left < 0
          /\ Len(feed') = Len(feed) + 1
          /\ feed'[Len(feed')] = FormatLine(added')]_vars

\* An ad that expired at the midnight just struck has been added
C12_Witness ==
    /\ call.op = "add_record"
    /\ call.path = "2"
    /\ events[3].text = D_today
    /\ now = StartClock + 1
    /\ added.kind = "PrivateAd"
    /\ added.days_left = -1
    /\ feed[Len(feed)].days_left = -1

\* The single event object of a JSON source file whose date is more than
\* one full day after clock reading t
FutureEvent(items, t) ==
    /\ Len(items) = 1
    /\ Get(items[1], "type") = T_event
    /\ {"text", "location", "event_date"} \subseteq DOMAIN items[1]
    /\ strptime(items[1].event_date).exc = NoExc
    /\ strptime(items[1].event_date).ord * TicksPerDay - t > TicksPerDay

\* C13: load_from_json on a source file that holds one event object with a
\* text, a location and an event_date more than a full day ahead appends
\* exactly one Event line with a positive days_until_event and removes the
\* source file.
C13_FutureEventLoaded ==
    [][( /\ call'.op = "load_from_json"
         /\ fs[JsonPath].exists
         /\ FutureEvent(fs[JsonPath].items, now) )
       => /\ raised' = NoExc
          /\ Len(feed') = Len(feed) + 1
          /\ SubSeq(feed', 1, Len(feed)) = feed
          /\ "days_until_event" \in DOMAIN feed'[Len(feed')]
          /\ feed'[Len(feed')].location = fs[JsonPath].items[1].location
          /\ feed'[Len(feed')].text = fs[JsonPath].items[1].text
          /\ feed'[Len(feed')].days_until_event > 0
          /\ ~fs'[JsonPath].exists]_vars

\* The JSON loader has returned from a pass that wrote one Event line
C13_Witness ==
    /\ call.op = "load_from_json"
    /\ raised = NoExc
    /\ Len(events) = 3
    /\ events[1].ev = "save_to_file"
    /\ feed # <<>>
    /\ "days_until_event" \in DOMAIN feed[Len(feed)]
    /\ feed[Len(feed)].days_until_event > 0
    /\ ~fs[JsonPath].exists

\* The number of save_to_file calls among the things a handler did
Saves(evs) == Cardinality({k \in 1..Len(evs) : evs[k].ev = "save_to_file"})

\* C14: every save_to_file call appends exactly one line to the feed file
\* and keeps what the file held as a prefix; nothing is deduplicated, so a
\* handler that made n saves leaves the file n lines longer.
C14_AppendOnly ==
    [][ /\ Len(feed') = Len(feed) + Saves(events')
        /\ SubSeq(feed', 1, Len(feed)) = feed ]_vars

\* One pass has saved two records with the same text, and the file holds the
\* same line twice
C14_Witness ==
    /\ call.op \in AdapterOps
    /\ Saves(events) = 2
    /\ Len(feed) = 2
    /\ feed[1] = feed[2]

\* The output the claim describes for input text: the corrected sentences
\* and, after them, the sentence made of their last words
Synthesized(text) ==
    LET sents == reSplitSentences(strip(text))
        corrected == [k \in 1..Len(sents) |-> reSubIz(capitalize(sents[k]))]
        last == [k \in 1..Len(sents) |->
                    LET tokens == split(rstripSet(corrected[k], SentenceEnd))
                    IN  tokens[Len(tokens)]]
    IN  join(Append(corrected, capitalize(join(last)) \o <<".">>))

\* C15: for every input text, normalize_text returns the n corrected
\* sentences and the synthesized sentence, n + 1 sentences joined by single
\* spaces; the synthesized sentence is the last tokens of the corrected
\* sentences (trailing '.', '!', '?' stripped), joined by single spaces,
\* capitalized, with '.' after it.
C15_SynthesizedSentence ==
    call.op = "normalize_text"
    => /\ normOut.exc = NoExc
       /\ normOut.text = Synthesized(normIn)

\* The number of whitespace characters of a text
Spaces(text) == Cardinality({k \in 1..Len(text) : text[k] \in WhiteSpace})

\* C16, as stated: for every text, normalizing the normalized output gives
\* a whitespace count different from the count given for the text itself.
C16_NeverFixedPoint ==
    (call.op = "normalize_text" /\ normOut.exc = NoExc)
    => normalize_text(normOut.text).ws # normOut.ws

\* C16, amended: the count normalize_text returns is the number of
\* whitespace characters of its original, untrimmed argument, so the count
\* of a second normalization is that of the first one's output; the two
\* counts may differ and may be equal.
C16_CountsOriginal ==
    (call.op = "normalize_text" /\ normOut.exc = NoExc)
    => /\ normOut.ws = Spaces(normIn)
       /\ normalize_text(normOut.text).exc = NoExc
       /\ normalize_text(normOut.text).ws = Spaces(normOut.text)

\* A text with leading whitespace whose second count differs from its first
C16_Witness ==
    /\ call.op = "normalize_text"
    /\ normOut.exc = NoExc
    /\ normIn # <<>> /\ normIn[1] \in WhiteSpace
    /\ normalize_text(normOut.text).ws # normOut.ws

\* C17: one add_record call writes one record or none.  On an invalid
\* choice it reports that and returns: no record is constructed, nothing is
\* written to the sink, no analytics update runs.  On a valid choice exactly
\* one record is written to the sink.
C17_OneRecordOrNone ==
    [][( /\ call'.op = "add_record"
         /\ now' = now )                     \* the step is the call itself
       => /\ Len(feed') = Len(feed) + Saves(events')
          /\ SubSeq(feed', 1, Len(feed)) = feed
          /\ IF call'.path \in {"1", "2", "3"}
             THEN Saves(events') = 1
             ELSE /\ raised' = NoExc
                  /\ added' = NoRec
                  /\ events'[Len(events')] = Did("print", <<"Invalid choice!">>)
                  /\ Saves(events') = 0
                  /\ UNCHANGED <<feed, wordCount, letterCount>>]_vars

\* arr is in non-decreasing order
Sorted(arr) == \A k \in 1..(Len(arr) - 1) : arr[k] <= arr[k + 1]

\* a and b hold the same elements with the same multiplicities
Permutation(a, b) ==
    /\ Len(a) = Len(b)
    /\ \A v \in Vals :
           Cardinality({k \in 1..Len(a) : a[k] = v})
               = Cardinality({k \in 1..Len(b) : b[k] = v})

\* C18: every bubble_sort call terminates, and from then on the list is in
\* non-decreasing order and a permutation of the list the call was given.
C18_SortsInPlace ==
    <>[](/\ sortCall.pc = "done"
         /\ Sorted(sortCall.arr)
         /\ Permutation(sortCall.arr, sortCall.arr0))

\* A call has ended on a list of full length with a repeated element that
\* was not in order
C18_Witness ==
    /\ sortCall.pc = "done"
    /\ sortCall.n = MaxList
    /\ ~Sorted(sortCall.arr0)
    /\ \E k \in 1..(sortCall.n - 1) : sortCall.arr[k] = sortCall.arr[k + 1]
    /\ sortCall.arr[sortCall.n] # sortCall.arr0[sortCall.n]

\* The positions of the dictionaries of list l that hold key k
Holders(l, k) == {n \in 1..Len(l) : k \in DOMAIN l[n]}

\* The greatest value of key k in the dictionaries of list l that hold it
MaxOf(l, k) ==
    CHOOSE v \in {l[n][k] : n \in Holders(l, k)} :
        \A n \in Holders(l, k) : l[n][k] <= v

\* C19: merge_dicts gives, for every key held by more than one dictionary,
\* the greatest of its values under the name '<key>_<N>', N being the
\* position (from 1) of a dictionary that holds that greatest value, and
\* for every key held by one dictionary the key and its value; it gives
\* nothing else.
C19_RenamesSharedKeys ==
    mergeCall.pc = "returned" =>
        LET l == mergeCall.list_of_dicts
            final == mergeCall.final_dict
            used == {k \in Keys : Holders(l, k) # {}}
        IN  /\ Cardinality(DOMAIN final) = Cardinality(used)
            /\ \A k \in used :
                   IF Cardinality(Holders(l, k)) > 1
                   THEN \E n \in Holders(l, k) :
                            /\ l[n][k] = MaxOf(l, k)
                            /\ (k \o <<"_">> \o IntStr(n)) \in DOMAIN final
                            /\ final[k \o <<"_">> \o IntStr(n)] = MaxOf(l, k)
                   ELSE /\ k \in DOMAIN final
                        /\ final[k] = MaxOf(l, k)

\* The adapters that consume a source file, Task 10's loader included
FileOps == AdapterOps \cup {"load_from_xml_db"}

\* C20: a pass of a file adapter over an existing source file removes the
\* file exactly when the pass returned without raising, and a pass that
\* raised leaves the file as it was; a call that follows a completed pass
\* of the same adapter on the same path returns normally and changes
\* neither the files nor the feed, the counts or the database.
C20_ConsumedExactlyOnce ==
    [][ /\ (call'.op \in FileOps /\ fs[call'.path].exists)
            => /\ fs'[call'.path].exists <=> raised' # NoExc
               /\ raised' # NoExc => fs' = fs
        /\ (call.op \in FileOps /\ raised = NoExc /\ call' = call)
            => /\ raised' = NoExc
               /\ events' = <<Did("no_file", <<>>)>>
               /\ UNCHANGED <<fs, feed, wordCount, letterCount, db>> ]_vars

\* A pass aborted after it had already written a record, source still there
C20_Witness ==
    /\ call.op \in FileOps
    /\ raised # NoExc
    /\ fs[call.path].exists
    /\ \E k \in 1..Len(events) : events[k].ev \in SinkWrites

\* C21: publish_date is the clock reading of the constructor call: the
\* object the loop holds keeps it while the clock moves on, and the line
\* that save_to_file appends carries it, not the clock reading of the save;
\* the lines of the feed file, in the order they were appended during the
\* run, carry publish_date values in non-decreasing order.
C21_PublishDateFixed ==
    /\ [][ /\ (pass.pc = "for" /\ pass'.pc = "save")
               => pass'.obj.publish_date = now
           /\ (pass.pc = "save" /\ pass'.pc = "save") => pass'.obj = pass.obj
           /\ (pass.pc = "save" /\ Len(feed') > Len(feed))
               => feed'[Len(feed')].publish_date = pass.obj.publish_date
         ]_vars
    /\ [](\A i, j \in 1..Len(feed) :
              i < j => feed[i].publish_date <= feed[j].publish_date)

\* One pass has appended two lines, the clock having moved between the two
\* constructor calls
C21_Witness ==
    /\ call.op = "load_from_xml"
    /\ Saves(events) = 2
    /\ Len(feed) = 2
    /\ feed[1].publish_date < feed[2].publish_date

\* The sentences normalize_text joins into its result: the corrected
\* sentences and, after them, the sentence made of their last words
OutputSentences(text) ==
    LET sents == reSplitSentences(strip(text))
        corrected == [k \in 1..Len(sents) |-> reSubIz(capitalize(sents[k]))]
        last == [k \in 1..Len(sents) |->
                    LET tokens == WordsOf(corrected[k])
                    IN  tokens[Len(tokens)]]
    IN  Append(corrected, capitalize(join(last)) \o <<".">>)

\* C23: when normalize_text returns, its text is the output sentences joined
\* by single spaces, and every one of them that starts with a letter starts
\* with an uppercase letter: the replacement of "iz" by "is" leaves the
\* capital of a sentence's first word in place.
C23_CapitalKept ==
    (call.op = "normalize_text" /\ normOut.exc = NoExc)
    => /\ normOut.text = join(OutputSentences(normIn))
       /\ \A k \in 1..Len(OutputSentences(normIn)) :
              LET s == OutputSentences(normIn)[k]
              IN  (s # <<>> /\ isalpha(s[1])) => isupper(s[1])

\* C22: a pass that ends with an exception leaves its source file as it
\* was and keeps what it had written: the feed file has grown by the lines
\* it saved and every table still holds its earlier rows.  Calling the same
\* adapter again on the same path ends the same way; with the flat file it
\* appends the lines of the aborted pass a second time, with the tables it
\* adds no row.
C22_NoRollback ==
    [][ /\ (call'.op \in FileOps /\ raised' # NoExc)
            => /\ fs' = fs
               /\ Len(feed') = Len(feed) + Saves(events')
               /\ SubSeq(feed', 1, Len(feed)) = feed
               /\ \A t \in Tables :
                      /\ Len(db'[t].rows) >= Len(db[t].rows)
                      /\ SubSeq(db'[t].rows, 1, Len(db[t].rows)) = db[t].rows
        /\ (call.op \in AdapterOps /\ raised # NoExc /\ call' = call)
            => /\ raised' = raised
               /\ events' = events
               /\ feed' = feed \o SubSeq(feed, Len(feed) - Saves(events) + 1,
                                         Len(feed))
        /\ (call.op = "load_from_xml_db" /\ raised # NoExc /\ call' = call)
            => /\ raised' = raised
               /\ \A t \in Tables : db'[t].rows = db[t].rows ]_vars

\* Both sinks after an aborted pass and its repetition: the feed file holds
\* the same line twice, the table one row for two insert statements
C22_Witness ==
    /\ call.op = "load_from_xml_db"
    /\ raised # NoExc
    /\ fs[XmlPath].exists
    /\ Len(feed) = 2
    /\ feed[1] = feed[2]
    /\ \E t \in Tables : Len(db[t].rows) = 1 /\ db[t].seq = 2

=============================================================================
